---- MODULE Spec2Model ----
(***************************************************************************)
(* The catalog's <nav-drawer> layout element                               *)
(* (catalog/src/components/nav-drawer.ts).                                 *)
(*                                                                         *)
(* State: the element's reactive field isCollapsible, the three shared     *)
(* signals it reads (drawerOpenSignal, inertSidebarSignal,                 *)
(* inertContentSignal), the viewport width with the MediaQueryList made in *)
(* firstUpdated, Lit's update bookkeeping (hasUpdated, isUpdatePending)    *)
(* and the output of the latest render().                                  *)
(*                                                                         *)
(* An update (render) is scheduled by a state change and performed later;  *)
(* the model does not assume that it is flushed before the next event, so  *)
(* several events may fall between two derivations.                        *)
(***************************************************************************)
EXTENDS Integers, Sequences, FiniteSets, TLC

\* matchMedia('(max-width: 1500px)')
ThresholdPx == 1500

\* viewport widths explored: ThresholdPx - WidthSpan .. ThresholdPx + WidthSpan
WidthSpan == 1

Widths == (ThresholdPx - WidthSpan)..(ThresholdPx + WidthSpan)

\* EASING.EMPHASIZED / EASING.EMPHASIZED_ACCELERATE
EMPHASIZED == "emphasized"

EMPHASIZED_ACCELERATE == "emphasized-accelerate"

VARIABLES
  connected,           \* the element is attached to the document
  width,               \* current viewport width in px
  listening,           \* the 'change' listener of firstUpdated is registered
  mqMatches,           \* matches value last reported by the MediaQueryList
  isCollapsible,       \* @state() private isCollapsible
  drawerOpenSignal,    \* drawerOpenSignal.value
  inertSidebarSignal,  \* inertSidebarSignal.value
  inertContentSignal,  \* inertContentSignal.value
  hasUpdated,          \* the first update (and firstUpdated) has run
  isUpdatePending,     \* an update has been requested and not yet performed
  dom,                 \* <<>> before the first render, else <<latest render output>>
  prev,                \* <<>> or <<inputs and derived values of the derivation before the latest>>
  lastEvent            \* name of the last operation that ran

vars == <<connected, width, listening, mqMatches, isCollapsible, drawerOpenSignal,
          inertSidebarSignal, inertContentSignal, hasUpdated, isUpdatePending,
          dom, prev, lastEvent>>

----------------------------------------------------------------------------
\* The media query (max-width: 1500px)

MatchesStrict(w) == w < ThresholdPx

Matches(w) == w <= ThresholdPx

----------------------------------------------------------------------------
\* render(): the derivation

showModalEither(collapsible, open) == collapsible \/ open

showModal(collapsible, open) == collapsible /\ open

drawerSlideAnimationDurationSwapped(modal) == IF modal THEN 150 ELSE 500

drawerSlideAnimationDuration(modal) == IF modal THEN 500 ELSE 150

drawerContentOpacityDurationAlwaysShort(modal) == 150

drawerContentOpacityDuration(modal) == IF modal THEN 300 ELSE 150

scrimOpacityDuration == 150

drawerSlideAnimationEasingAlwaysEmphasized(modal) == EMPHASIZED

drawerSlideAnimationEasing(modal) ==
  IF modal THEN EMPHASIZED ELSE EMPHASIZED_ACCELERATE

animationSpeedInverted(modal) == IF modal THEN "short" ELSE "long"

animationSpeed(modal) == IF modal THEN "long" ELSE "short"

\* styles: .pane { transition: 0.5s cubic-bezier(0.3, 0, 0, 1) } and
\* [data-animation-speed='short'] .pane { 0.15s cubic-bezier(0.3, 0, 0.8, 0.15) }
paneTransition(speed) ==
  IF speed = "short"
    THEN [durationMs |-> 150, easing |-> EMPHASIZED_ACCELERATE]
    ELSE [durationMs |-> 500, easing |-> EMPHASIZED]

asideInertWhenCollapsible(collapsible, open) == collapsible

asideInertWhenClosed(collapsible, open) == ~open

asideInert(collapsible, open) == collapsible /\ ~open

contentInertSignalOnly(modal, inertContent) == inertContent

contentInert(modal, inertContent) == modal \/ inertContent

\* A plausible slip: the slide timing is chosen from the transition (long only
\* when the DOM being replaced showed no scrim), not from the new state.
renderFromTransition(collapsible, open, inertSidebar, inertContent) ==
  LET modal == showModal(collapsible, open)
      entering == modal /\ ~(dom # <<>> /\ dom[1].showScrim) IN
  [ isCollapsible   |-> collapsible,
    open            |-> open,
    inertContentIn  |-> inertContent,
    firstRender     |-> ~hasUpdated,
    animationSpeed  |-> animationSpeed(modal),
    bodyOpen        |-> open,
    spacerInert     |-> inertSidebar,
    showScrim       |-> modal,
    scrimOpacityDurationMs   |-> scrimOpacityDuration,
    asideInert      |-> asideInert(collapsible, open),
    slideDurationMs |-> drawerSlideAnimationDuration(entering),
    easing          |-> drawerSlideAnimationEasing(entering),
    contentOpacityDurationMs |-> drawerContentOpacityDuration(entering),
    contentInert    |-> contentInert(modal, inertContent),
    cause           |-> lastEvent ]

render(collapsible, open, inertSidebar, inertContent) ==
  LET modal == showModal(collapsible, open) IN
  [ isCollapsible   |-> collapsible,
    open            |-> open,
    inertContentIn  |-> inertContent,
    firstRender     |-> ~hasUpdated,
    animationSpeed  |-> animationSpeed(modal),
    bodyOpen        |-> open,
    spacerInert     |-> inertSidebar,
    showScrim       |-> modal,
    scrimOpacityDurationMs   |-> scrimOpacityDuration,
    asideInert      |-> asideInert(collapsible, open),
    slideDurationMs |-> drawerSlideAnimationDuration(modal),
    easing          |-> drawerSlideAnimationEasing(modal),
    contentOpacityDurationMs |-> drawerContentOpacityDuration(modal),
    contentInert    |-> contentInert(modal, inertContent),
    cause           |-> lastEvent ]

\* what the derivation that the new one replaces read and derived
previousOf(d) ==
  IF d = <<>> THEN <<>>
  ELSE << [ isCollapsible   |-> d[1].isCollapsible,
            open            |-> d[1].open,
            inertContentIn  |-> d[1].inertContentIn,
            showScrim       |-> d[1].showScrim,
            scrimOpacityDurationMs   |-> d[1].scrimOpacityDurationMs,
            asideInert      |-> d[1].asideInert,
            slideDurationMs |-> d[1].slideDurationMs,
            easing          |-> d[1].easing,
            contentOpacityDurationMs |-> d[1].contentOpacityDurationMs,
            contentInert    |-> d[1].contentInert ] >>

----------------------------------------------------------------------------
InitialIsCollapsibleTrue == TRUE

InitialIsCollapsible == FALSE

Init ==
  /\ connected = TRUE
  /\ width \in Widths
  /\ listening = FALSE
  /\ mqMatches = FALSE
  /\ isCollapsible = InitialIsCollapsible
  /\ drawerOpenSignal = FALSE
  /\ inertSidebarSignal = FALSE
  /\ inertContentSignal = FALSE
  /\ hasUpdated = FALSE
  /\ isUpdatePending = TRUE
  /\ dom = <<>>
  /\ prev = <<>>
  /\ lastEvent = "init"

----------------------------------------------------------------------------
\* The viewport is resized; the media query is re-evaluated later.
Resize ==
  \E w \in Widths :
    /\ w # width
    /\ width' = w
    /\ lastEvent' = "resize"
    /\ UNCHANGED <<connected, listening, mqMatches, isCollapsible, drawerOpenSignal,
                   inertSidebarSignal, inertContentSignal, hasUpdated,
                   isUpdatePending, dom, prev>>

\* A plausible slip: going inline also closes the drawer.
ChangeListenerClosing ==
  /\ listening
  /\ Matches(width) # mqMatches
  /\ mqMatches' = Matches(width)
  /\ isCollapsible' = Matches(width)
  /\ drawerOpenSignal' = (drawerOpenSignal /\ Matches(width))
  /\ isUpdatePending' = TRUE
  /\ lastEvent' = "change"
  /\ UNCHANGED <<connected, width, listening, inertSidebarSignal, inertContentSignal,
                 hasUpdated, dom, prev>>

\* A plausible slip: isCollapsible is a plain field (no @state()), so
\* assigning it requests no update.
ChangeListenerNotReactive ==
  /\ listening
  /\ Matches(width) # mqMatches
  /\ mqMatches' = Matches(width)
  /\ isCollapsible' = Matches(width)
  /\ lastEvent' = "change"
  /\ UNCHANGED <<connected, width, listening, drawerOpenSignal,
                 inertSidebarSignal, inertContentSignal, hasUpdated,
                 isUpdatePending, dom, prev>>

\* queryResult 'change' listener: this.isCollapsible = e.matches
ChangeListener ==
  /\ listening
  /\ Matches(width) # mqMatches
  /\ mqMatches' = Matches(width)
  /\ isCollapsible' = Matches(width)
  /\ isUpdatePending' = (isUpdatePending \/ isCollapsible' # isCollapsible)
  /\ lastEvent' = "change"
  /\ UNCHANGED <<connected, width, listening, drawerOpenSignal, inertSidebarSignal,
                 inertContentSignal, hasUpdated, dom, prev>>

\* Host application writes drawerOpenSignal.value
SetOpen ==
  \E v \in BOOLEAN :
    /\ drawerOpenSignal' = v
    /\ isUpdatePending' = (isUpdatePending \/ connected)
    /\ lastEvent' = "setOpen"
    /\ UNCHANGED <<connected, width, listening, mqMatches, isCollapsible,
                   inertSidebarSignal, inertContentSignal, hasUpdated,
                   dom, prev>>

\* Another component writes inertSidebarSignal.value
SetInertSidebar ==
  \E v \in BOOLEAN :
    /\ inertSidebarSignal' = v
    /\ isUpdatePending' = (isUpdatePending \/ connected)
    /\ lastEvent' = "setInertSidebar"
    /\ UNCHANGED <<connected, width, listening, mqMatches, isCollapsible,
                   drawerOpenSignal, inertContentSignal, hasUpdated,
                   dom, prev>>

\* Another component writes inertContentSignal.value
SetInertContent ==
  \E v \in BOOLEAN :
    /\ inertContentSignal' = v
    /\ isUpdatePending' = (isUpdatePending \/ connected)
    /\ lastEvent' = "setInertContent"
    /\ UNCHANGED <<connected, width, listening, mqMatches, isCollapsible,
                   drawerOpenSignal, inertSidebarSignal, hasUpdated,
                   dom, prev>>

\* A plausible slip: the click handler also clears the content-inert signal.
onScrimClickClearingInert ==
  /\ drawerOpenSignal' = FALSE
  /\ inertContentSignal' = FALSE
  /\ isUpdatePending' = TRUE
  /\ lastEvent' = "scrimClick"
  /\ UNCHANGED <<connected, width, listening, mqMatches, isCollapsible,
                 inertSidebarSignal, hasUpdated, dom, prev>>

\* A plausible slip: the click handler toggles the drawer instead of closing it.
onScrimClickToggling ==
  /\ drawerOpenSignal' = ~drawerOpenSignal
  /\ isUpdatePending' = TRUE
  /\ lastEvent' = "scrimClick"
  /\ UNCHANGED <<connected, width, listening, mqMatches, isCollapsible,
                 inertSidebarSignal, inertContentSignal, hasUpdated,
                 dom, prev>>

\* onScrimClick(): drawerOpenSignal.value = false
onScrimClick ==
  /\ drawerOpenSignal' = FALSE
  /\ isUpdatePending' = TRUE
  /\ lastEvent' = "scrimClick"
  /\ UNCHANGED <<connected, width, listening, mqMatches, isCollapsible,
                 inertSidebarSignal, inertContentSignal, hasUpdated,
                 dom, prev>>

\* A plausible slip: the scrim is rendered unconditionally.
ScrimClickAlwaysRendered ==
  /\ connected
  /\ dom # <<>>
  /\ onScrimClick

\* A click on the scrim element of the current DOM (@click=${this.onScrimClick})
ScrimClick ==
  /\ connected
  /\ dom # <<>>
  /\ dom[1].showScrim
  /\ onScrimClick

\* First update: render(), then firstUpdated()
FirstUpdate ==
  /\ isUpdatePending
  /\ ~hasUpdated
  /\ dom' = << render(isCollapsible, drawerOpenSignal,
                      inertSidebarSignal, inertContentSignal) >>
  /\ prev' = previousOf(dom)
  /\ hasUpdated' = TRUE
  /\ mqMatches' = Matches(width)
  /\ isCollapsible' = Matches(width)
  /\ listening' = TRUE
  /\ isUpdatePending' = (isCollapsible' # isCollapsible)
  /\ lastEvent' = "firstUpdate"
  /\ UNCHANGED <<connected, width, drawerOpenSignal, inertSidebarSignal,
                 inertContentSignal>>

\* A plausible slip: the derivation publishes its inert values to the signals.
UpdateWritingSignals ==
  /\ isUpdatePending
  /\ hasUpdated
  /\ dom' = << render(isCollapsible, drawerOpenSignal,
                      inertSidebarSignal, inertContentSignal) >>
  /\ prev' = previousOf(dom)
  /\ inertSidebarSignal' = asideInert(isCollapsible, drawerOpenSignal)
  /\ inertContentSignal' = showModal(isCollapsible, drawerOpenSignal)
  /\ isUpdatePending' = FALSE
  /\ lastEvent' = "update"
  /\ UNCHANGED <<connected, width, listening, mqMatches, isCollapsible,
                 drawerOpenSignal, hasUpdated>>

\* A plausible slip: the derivation writes the inert signals it also reads,
\* and each write notifies the element, which requests another update.
UpdateRequestingUpdate ==
  /\ isUpdatePending
  /\ hasUpdated
  /\ dom' = << render(isCollapsible, drawerOpenSignal,
                      inertSidebarSignal, inertContentSignal) >>
  /\ prev' = previousOf(dom)
  /\ inertSidebarSignal' = asideInert(isCollapsible, drawerOpenSignal)
  /\ inertContentSignal' = showModal(isCollapsible, drawerOpenSignal)
  /\ isUpdatePending' = TRUE
  /\ lastEvent' = "update"
  /\ UNCHANGED <<connected, width, listening, mqMatches, isCollapsible,
                 drawerOpenSignal, hasUpdated>>

\* Every later update: render()
Update ==
  /\ isUpdatePending
  /\ hasUpdated
  /\ dom' = << render(isCollapsible, drawerOpenSignal,
                      inertSidebarSignal, inertContentSignal) >>
  /\ prev' = previousOf(dom)
  /\ isUpdatePending' = FALSE
  /\ lastEvent' = "update"
  /\ UNCHANGED <<connected, width, listening, mqMatches, isCollapsible,
                 drawerOpenSignal, inertSidebarSignal, inertContentSignal,
                 hasUpdated>>

\* The element, once it has rendered, is removed from the document.
\* NavDrawer has no disconnectedCallback: the 'change' listener stays
\* registered.  The signal subscriptions are released, so later signal writes
\* request no update.
Disconnect ==
  /\ connected
  /\ hasUpdated
  /\ connected' = FALSE
  /\ lastEvent' = "disconnect"
  /\ UNCHANGED <<width, listening, mqMatches, isCollapsible, drawerOpenSignal,
                 inertSidebarSignal, inertContentSignal, hasUpdated,
                 isUpdatePending, dom, prev>>

Next ==
  \/ Disconnect
  \/ Resize
  \/ ChangeListener
  \/ SetOpen
  \/ SetInertSidebar
  \/ SetInertContent
  \/ ScrimClick
  \/ FirstUpdate
  \/ Update

Spec == Init /\ [][Next]_vars

\* A requested update is always performed (Lit schedules it as a microtask).
FairSpec == Spec /\ WF_vars(FirstUpdate) /\ WF_vars(Update)

----------------------------------------------------------------------------
\* The latest derivation is current: the element is attached and its latest
\* derivation was computed from the present state.
Derived == connected /\ dom # <<>> /\ ~isUpdatePending

----------------------------------------------------------------------------
\* C1: after every derivation the scrim is rendered exactly when the drawer is
\* collapsible and the open signal is true, both for the values the derivation
\* read and, while attached with no update pending, for the current state.
C1_ScrimIffCollapsibleAndOpen ==
  dom # <<>> =>
    /\ dom[1].showScrim = (dom[1].isCollapsible /\ dom[1].open)
    /\ (connected /\ ~isUpdatePending)
         => (dom[1].showScrim = (isCollapsible /\ drawerOpenSignal))

C1_Witness ==
  /\ Derived
  /\ dom[1].showScrim
  /\ dom[1].cause = "change"
  /\ prev # <<>>
  /\ ~prev[1].isCollapsible

\* C2: a width matches the query iff it is at most 1500px (1500 itself
\* matches), and right after a width-change notification isCollapsible equals
\* that classification of the current width.
C2_ClassificationInclusive ==
  /\ \A w \in Widths : Matches(w) <=> (w <= 1500)
  /\ lastEvent = "change" => (isCollapsible <=> (width <= 1500))

C2_Witness ==
  /\ lastEvent = "change"
  /\ width = 1500
  /\ isCollapsible

\* C3: a derivation at (Collapsible, open) that replaces one at
\* (Inline, closed) has slide 500ms, content opacity 300ms, easing emphasized.
C3_EnteringModalTiming ==
  ( /\ dom # <<>>
    /\ prev # <<>>
    /\ ~prev[1].isCollapsible /\ ~prev[1].open
    /\ dom[1].isCollapsible /\ dom[1].open )
  => /\ dom[1].slideDurationMs = 500
     /\ dom[1].contentOpacityDurationMs = 300
     /\ dom[1].easing = "emphasized"

C3_Witness ==
  /\ Derived
  /\ prev # <<>>
  /\ ~prev[1].isCollapsible /\ ~prev[1].open
  /\ dom[1].isCollapsible /\ dom[1].open
  /\ dom[1].slideDurationMs = 500

\* C4: a derivation at (Collapsible, closed) that replaces one at
\* (Collapsible, open) has slide 150ms and easing emphasized-accelerate,
\* whatever closed the drawer.
C4_ClosingTiming ==
  ( /\ dom # <<>>
    /\ prev # <<>>
    /\ prev[1].isCollapsible /\ prev[1].open
    /\ dom[1].isCollapsible /\ ~dom[1].open )
  => /\ dom[1].slideDurationMs = 150
     /\ dom[1].easing = "emphasized-accelerate"

C4_Witness ==
  /\ Derived
  /\ prev # <<>>
  /\ prev[1].isCollapsible /\ prev[1].open
  /\ dom[1].isCollapsible /\ ~dom[1].open
  /\ dom[1].cause = "scrimClick"
  /\ dom[1].slideDurationMs = 150

\* C5: a scrim click sets the open signal to false and leaves the mode and
\* both inert signals unchanged; clicked while inline, no scrim results,
\* neither from the state it leaves nor in the derivation that follows it.
C5_ScrimClickFrame ==
  /\ [][ lastEvent' = "scrimClick" =>
           /\ drawerOpenSignal' = FALSE
           /\ UNCHANGED <<isCollapsible, inertSidebarSignal, inertContentSignal>>
           /\ (~isCollapsible => ~(isCollapsible' /\ drawerOpenSignal')) ]_vars
  /\ [](dom # <<>> /\ dom[1].cause = "scrimClick" /\ ~dom[1].isCollapsible
          => ~dom[1].showScrim)

C5_Witness ==
  /\ Derived
  /\ dom[1].cause = "scrimClick"
  /\ ~dom[1].isCollapsible
  /\ ~dom[1].showScrim
  /\ inertContentSignal

\* C6: in every derivation the aside's inert flag is (collapsible and not
\* open) and the content's inert flag is (scrim shown or the content-inert
\* signal), for the values read and, while no update is pending, the current
\* ones.
C6_InertFlags ==
  dom # <<>> =>
    /\ dom[1].asideInert = (dom[1].isCollapsible /\ ~dom[1].open)
    /\ dom[1].contentInert = (dom[1].showScrim \/ dom[1].inertContentIn)
    /\ (connected /\ ~isUpdatePending) =>
         /\ dom[1].asideInert = (isCollapsible /\ ~drawerOpenSignal)
         /\ dom[1].contentInert = (dom[1].showScrim \/ inertContentSignal)

C6_Witness ==
  /\ Derived
  /\ ~dom[1].isCollapsible
  /\ dom[1].open
  /\ dom[1].inertContentIn
  /\ dom[1].contentInert
  /\ ~dom[1].asideInert

C9_ModeFlipKeepsOpen ==
  /\ [][ isCollapsible' # isCollapsible =>
           drawerOpenSignal' = drawerOpenSignal ]_vars
  /\ [](dom # <<>> /\ ~dom[1].isCollapsible /\ dom[1].open
          => ~dom[1].showScrim)

C9_Witness ==
  /\ Derived
  /\ dom[1].cause = "change"
  /\ prev # <<>>
  /\ prev[1].isCollapsible /\ prev[1].open
  /\ ~dom[1].isCollapsible /\ dom[1].open
  /\ ~dom[1].showScrim

\* C10: until firstUpdated has run the mode is inline, and the derivation
\* made before it shows no scrim and a non-inert aside whatever the open
\* signal is.
C10_InlineBeforeFirstMeasurement ==
  /\ ~hasUpdated => ~isCollapsible
  /\ (dom # <<>> /\ dom[1].firstRender) =>
       /\ ~dom[1].isCollapsible
       /\ ~dom[1].showScrim
       /\ ~dom[1].asideInert

C10_Witness ==
  /\ lastEvent = "firstUpdate"
  /\ dom[1].firstRender
  /\ dom[1].open
  /\ width <= 1500
  /\ ~dom[1].showScrim

\* C11: a scrim click, or a write of false, made while the open signal is
\* already false leaves the aside-inert and content-inert values derived from
\* the state as they were, in either mode.
C11_IdempotentClose ==
  [][ ( /\ ~drawerOpenSignal
        /\ \/ lastEvent' = "scrimClick"
           \/ (lastEvent' = "setOpen" /\ ~drawerOpenSignal') )
      => /\ (isCollapsible' /\ ~drawerOpenSignal')
               = (isCollapsible /\ ~drawerOpenSignal)
         /\ ((isCollapsible' /\ drawerOpenSignal') \/ inertContentSignal')
               = ((isCollapsible /\ drawerOpenSignal) \/ inertContentSignal) ]_vars

C11_Witness ==
  /\ Derived
  /\ prev # <<>>
  /\ dom[1].cause = "setOpen"
  /\ ~prev[1].open /\ ~dom[1].open
  /\ prev[1].isCollapsible /\ dom[1].isCollapsible
  /\ dom[1].asideInert
  /\ ~dom[1].contentInert

\* C12: once the element is unmounted, a width-change notification no longer
\* runs its listener: such a step changes neither the mode nor anything else
\* of the instance.
C12_ListenersReleasedOnUnmount ==
  [][ (~connected /\ lastEvent' = "change")
        => UNCHANGED <<isCollapsible, isUpdatePending>> ]_vars

\* C13 (as claimed): the entering profile (500ms, 300ms, emphasized) is used
\* exactly for a transition in which open becomes true and the resulting mode
\* is collapsible, any other transition uses (150ms, 150ms,
\* emphasized-accelerate), and the scrim fade is always 150ms.
C13_ProfileFromTransition ==
  (dom # <<>> /\ prev # <<>>) =>
    LET entering == ~prev[1].open /\ dom[1].open /\ dom[1].isCollapsible IN
    /\ dom[1].scrimOpacityDurationMs = 150
    /\ dom[1].slideDurationMs = (IF entering THEN 500 ELSE 150)
    /\ dom[1].contentOpacityDurationMs = (IF entering THEN 300 ELSE 150)
    /\ dom[1].easing = (IF entering THEN "emphasized" ELSE "emphasized-accelerate")

\* C13 (amended): the profile is chosen from the new state alone: a derivation
\* at (collapsible, open) has (500ms, 300ms, emphasized) whatever the previous
\* derivation was, every other derivation has (150ms, 150ms,
\* emphasized-accelerate), and the scrim fade is always 150ms.
C13_ProfileFromNextStateAlone ==
  dom # <<>> =>
    LET modalNow == dom[1].isCollapsible /\ dom[1].open IN
    /\ dom[1].scrimOpacityDurationMs = 150
    /\ <<dom[1].slideDurationMs, dom[1].contentOpacityDurationMs, dom[1].easing>>
         = (IF modalNow THEN <<500, 300, "emphasized">>
                        ELSE <<150, 150, "emphasized-accelerate">>)

C13_Witness ==
  /\ Derived
  /\ prev # <<>>
  /\ ~prev[1].isCollapsible /\ prev[1].open
  /\ dom[1].isCollapsible /\ dom[1].open
  /\ dom[1].slideDurationMs = 500
  /\ dom[1].contentOpacityDurationMs = 300

\* C14 (as claimed): two successive derivations made with the same mode and
\* the same open value agree on every derived field.
C14_FunctionOfModeAndOpen ==
  ( /\ dom # <<>>
    /\ prev # <<>>
    /\ prev[1].isCollapsible = dom[1].isCollapsible
    /\ prev[1].open = dom[1].open )
  => /\ prev[1].showScrim = dom[1].showScrim
     /\ prev[1].slideDurationMs = dom[1].slideDurationMs
     /\ prev[1].contentOpacityDurationMs = dom[1].contentOpacityDurationMs
     /\ prev[1].scrimOpacityDurationMs = dom[1].scrimOpacityDurationMs
     /\ prev[1].easing = dom[1].easing
     /\ prev[1].asideInert = dom[1].asideInert
     /\ prev[1].contentInert = dom[1].contentInert

\* C14 (amended): two successive derivations made with the same mode and the
\* same open value agree on the scrim, the three durations, the easing and the
\* aside's inert flag, and on the content's inert flag too when they read the
\* same content-inert signal.
C14_FunctionOfModeOpenAndInertSignal ==
  ( /\ dom # <<>>
    /\ prev # <<>>
    /\ prev[1].isCollapsible = dom[1].isCollapsible
    /\ prev[1].open = dom[1].open )
  => /\ prev[1].showScrim = dom[1].showScrim
     /\ prev[1].slideDurationMs = dom[1].slideDurationMs
     /\ prev[1].contentOpacityDurationMs = dom[1].contentOpacityDurationMs
     /\ prev[1].scrimOpacityDurationMs = dom[1].scrimOpacityDurationMs
     /\ prev[1].easing = dom[1].easing
     /\ prev[1].asideInert = dom[1].asideInert
     /\ (prev[1].inertContentIn = dom[1].inertContentIn)
          => (prev[1].contentInert = dom[1].contentInert)

C14_Witness ==
  /\ Derived
  /\ prev # <<>>
  /\ prev[1].isCollapsible = dom[1].isCollapsible
  /\ prev[1].open = dom[1].open
  /\ dom[1].cause = "setInertContent"
  /\ prev[1].inertContentIn # dom[1].inertContentIn
  /\ prev[1].contentInert # dom[1].contentInert
  /\ prev[1].slideDurationMs = dom[1].slideDurationMs

\* The latest derivation does not reflect the current mode and open values.
Stale ==
  \/ dom = <<>>
  \/ dom[1].isCollapsible # isCollapsible
  \/ dom[1].open # drawerOpenSignal

\* C15: every derivation is computed from the mode and open values current
\* when it runs, and while the element stays attached a state whose latest
\* derivation is out of date is always followed by one that is up to date.
C15_DerivationFollowsEveryChange ==
  /\ [][ lastEvent' \in {"update", "firstUpdate"} =>
           /\ dom' # <<>>
           /\ dom'[1].isCollapsible = isCollapsible
           /\ dom'[1].open = drawerOpenSignal ]_vars
  /\ (connected /\ Stale) ~> (~connected \/ ~Stale)

C15_Witness ==
  /\ Derived
  /\ ~Stale
  /\ lastEvent = "update"
  /\ dom[1].cause = "change"
  /\ prev # <<>>
  /\ ~prev[1].isCollapsible /\ ~prev[1].open
  /\ dom[1].isCollapsible /\ dom[1].open

\* Work the element still has to do without any further external event: the
\* first update, a pending change notification, a pending update.
InternalWork ==
  (IF ~hasUpdated THEN 3 ELSE 0)
  + (IF listening /\ Matches(width) # mqMatches THEN 2 ELSE 0)
  + (IF isUpdatePending THEN 1 ELSE 0)

\* C16: every step the element takes by itself (first update, change
\* listener, update) strictly decreases the bounded measure InternalWork, and
\* the element has such a step to take exactly while the measure is positive:
\* after an external event it does finitely many derivations and is then
\* quiescent.
C16_NoUnboundedReentrantCycle ==
  /\ [][ lastEvent' \in {"firstUpdate", "change", "update"} =>
           (InternalWork' < InternalWork /\ InternalWork' >= 0) ]_vars
  /\ []( (InternalWork = 0) <=>
           ~(ENABLED FirstUpdate \/ ENABLED ChangeListener \/ ENABLED Update) )

C16_Witness ==
  /\ connected
  /\ lastEvent = "update"
  /\ dom[1].cause = "change"
  /\ InternalWork = 0

\* C17 (as claimed): no derivation renders the sidebar region (spacer or
\* aside) and the main content inert at once.
C17_NeverBothInert ==
  dom # <<>> =>
    ~((dom[1].spacerInert \/ dom[1].asideInert) /\ dom[1].contentInert)

\* C17 (amended): the drawer's own state never makes both regions inert: the
\* aside's inert flag and the scrim are never set together, and a derivation
\* renders sidebar region and content both inert only when it read
\* inertSidebarSignal or inertContentSignal as true.
C17_BothInertOnlyBySignal ==
  dom # <<>> =>
    /\ ~(dom[1].asideInert /\ dom[1].showScrim)
    /\ ((dom[1].spacerInert \/ dom[1].asideInert) /\ dom[1].contentInert)
         => (dom[1].spacerInert \/ dom[1].inertContentIn)

C17_Witness ==
  /\ Derived
  /\ dom[1].asideInert
  /\ ~dom[1].spacerInert
  /\ dom[1].contentInert
  /\ dom[1].inertContentIn
  /\ inertContentSignal

\* C18 (as claimed): every scrim click takes the machine from
\* (collapsible, open) to (collapsible, closed), and the derivation that
\* follows it shows no scrim, has the aside inert and the content inert only
\* by the content-inert signal.
C18_ScrimClickAlwaysFromModal ==
  /\ [][ lastEvent' = "scrimClick" =>
           /\ isCollapsible /\ drawerOpenSignal
           /\ isCollapsible' /\ ~drawerOpenSignal' ]_vars
  /\ [](dom # <<>> /\ dom[1].cause = "scrimClick" =>
          /\ ~dom[1].showScrim
          /\ dom[1].asideInert
          /\ dom[1].contentInert = dom[1].inertContentIn)

\* C18 (amended): only a derivation at (collapsible, open) renders the scrim;
\* a click on a scrim whose derivation is still current takes the machine from
\* (collapsible, open) to (collapsible, closed); the derivation right after
\* any scrim click shows no scrim, has the content inert only by the
\* content-inert signal, and has the aside inert if the mode is collapsible.
C18_ScrimClickFromCurrentScrim ==
  /\ [](dom # <<>> /\ dom[1].showScrim => dom[1].isCollapsible /\ dom[1].open)
  /\ [][ (lastEvent' = "scrimClick" /\ ~isUpdatePending) =>
           /\ isCollapsible /\ drawerOpenSignal
           /\ isCollapsible' /\ ~drawerOpenSignal' ]_vars
  /\ [](dom # <<>> /\ dom[1].cause = "scrimClick" =>
          /\ ~dom[1].showScrim
          /\ dom[1].asideInert = dom[1].isCollapsible
          /\ dom[1].contentInert = dom[1].inertContentIn)

C18_Witness ==
  /\ Derived
  /\ dom[1].cause = "scrimClick"
  /\ prev # <<>>
  /\ prev[1].showScrim
  /\ prev[1].isCollapsible /\ prev[1].open
  /\ dom[1].isCollapsible /\ ~dom[1].open
  /\ dom[1].asideInert
  /\ ~dom[1].contentInert

\* C19: in every derivation data-animation-speed is 'long' exactly when the
\* slide is 500ms with easing emphasized and 'short' exactly when it is 150ms
\* with easing emphasized-accelerate, and the pane transition the stylesheet
\* selects for that attribute has the same duration and easing as the slide.
C19_AnimationSpeedMatchesProfile ==
  dom # <<>> =>
    /\ dom[1].animationSpeed \in {"long", "short"}
    /\ (dom[1].animationSpeed = "long") <=>
         (dom[1].slideDurationMs = 500 /\ dom[1].easing = "emphasized")
    /\ (dom[1].animationSpeed = "short") <=>
         (dom[1].slideDurationMs = 150 /\ dom[1].easing = "emphasized-accelerate")
    /\ paneTransition(dom[1].animationSpeed)
         = [durationMs |-> dom[1].slideDurationMs, easing |-> dom[1].easing]

C19_Witness ==
  /\ Derived
  /\ dom[1].animationSpeed = "long"
  /\ dom[1].slideDurationMs = 500
  /\ paneTransition(dom[1].animationSpeed).durationMs = 500
  /\ prev # <<>>
  /\ prev[1].slideDurationMs = 150

====
